---- MODULE Spec2Model ----
(***************************************************************************)
(* Model of the portfolio tracker (portfolio_tracker.py) and of the        *)
(* performance analyzer (portfolio_performance_analysis.py).               *)
(*                                                                         *)
(* Numbers.  The program computes in IEEE doubles held in pandas columns.  *)
(* A cell is modelled as a record [k, n, d]:                               *)
(*    k = "num" : the exact rational n/d (d > 0, lowest terms)             *)
(*    k = "nan" : NaN (a missing cell)                                     *)
(*    k = "inf" : +infinity (n = 1) or -infinity (n = -1)                  *)
(* Arithmetic is exact on rationals and follows IEEE for NaN, infinities   *)
(* and division by zero; rounding of doubles is not modelled.  Common      *)
(* factors are cancelled before multiplying, to keep the integers small.   *)
(***************************************************************************)
EXTENDS Integers, Sequences, FiniteSets, TLC

\* ------------------------------------------------------------------------
\* Float cells
\* ------------------------------------------------------------------------
Abs(x) == IF x < 0 THEN -x ELSE x

RECURSIVE GCD(_, _)
GCD(a, b) == IF b = 0 THEN a ELSE GCD(b, a % b)

Norm(n, d) ==
    LET g == GCD(Abs(n), Abs(d))
        s == IF d < 0 THEN -1 ELSE 1
    IN  [k |-> "num", n |-> (s * n) \div g, d |-> (s * d) \div g]

FromInt(i) == [k |-> "num", n |-> i, d |-> 1]
NaN == [k |-> "nan", n |-> 0, d |-> 1]
Inf(sign) == [k |-> "inf", n |-> sign, d |-> 1]

IsNaN(x) == x.k = "nan"
IsNum(x) == x.k = "num"
IsInf(x) == x.k = "inf"
Sign(x) == IF x.n > 0 THEN 1 ELSE IF x.n < 0 THEN -1 ELSE 0

FNeg(x) == [x EXCEPT !.n = -x.n]

FAdd(a, b) ==
    IF IsNaN(a) \/ IsNaN(b) THEN NaN
    ELSE IF IsInf(a) /\ IsInf(b) THEN (IF a.n = b.n THEN a ELSE NaN)
    ELSE IF IsInf(a) THEN a
    ELSE IF IsInf(b) THEN b
    ELSE LET g == GCD(a.d, b.d)
         IN  Norm(a.n * (b.d \div g) + b.n * (a.d \div g), (a.d \div g) * b.d)

FSub(a, b) == FAdd(a, FNeg(b))

FMul(a, b) ==
    IF IsNaN(a) \/ IsNaN(b) THEN NaN
    ELSE IF IsInf(a) \/ IsInf(b)
         THEN (IF Sign(a) * Sign(b) = 0 THEN NaN ELSE Inf(Sign(a) * Sign(b)))
    ELSE LET g1 == GCD(Abs(a.n), b.d)
             g2 == GCD(Abs(b.n), a.d)
         IN  IF a.n = 0 \/ b.n = 0 THEN FromInt(0)
             ELSE Norm((a.n \div g1) * (b.n \div g2), (a.d \div g2) * (b.d \div g1))

FDiv(a, b) ==
    IF IsNaN(a) \/ IsNaN(b) THEN NaN
    ELSE IF IsInf(a) /\ IsInf(b) THEN NaN
    ELSE IF IsInf(a) THEN Inf(IF Sign(b) < 0 THEN -a.n ELSE a.n)
    ELSE IF IsInf(b) THEN FromInt(0)
    ELSE IF b.n = 0 THEN (IF a.n = 0 THEN NaN ELSE Inf(Sign(a)))
    ELSE FMul(a, Norm(b.d, b.n))

\* a < b ; every comparison with NaN is false
FLt(a, b) ==
    IF IsNaN(a) \/ IsNaN(b) THEN FALSE
    ELSE IF IsInf(a) /\ IsInf(b) THEN a.n < b.n
    ELSE IF IsInf(a) THEN a.n < 0
    ELSE IF IsInf(b) THEN b.n > 0
    ELSE LET g == GCD(a.d, b.d)
         IN  a.n * (b.d \div g) < b.n * (a.d \div g)

FGt(a, b) == FLt(b, a)
FAbs(x) == [x EXCEPT !.n = Abs(x.n)]
F100 == FromInt(100)

\* mutant of SumSkipNa: a missing cell is not skipped (skipna=False)
RECURSIVE SumKeepNa(_)
SumKeepNa(s) ==
    IF s = << >> THEN FromInt(0)
    ELSE FAdd(s[1], SumKeepNa(Tail(s)))

\* Series.sum(): missing cells are skipped, the empty sum is 0
RECURSIVE SumSkipNa(_)
SumSkipNa(s) ==
    IF s = << >> THEN FromInt(0)
    ELSE IF IsNaN(s[1]) THEN SumSkipNa(Tail(s))
    ELSE FAdd(s[1], SumSkipNa(Tail(s)))

\* the column of a table, by its name
Column(rows, name) == [i \in 1..Len(rows) |-> rows[i][name]]

\* ------------------------------------------------------------------------
\* Bounds and input sets
\* ------------------------------------------------------------------------
MaxHistory == 2
MaxDay == 2
MaxLen == 3

\* the calendar dates datetime.now() can show, in chronological order
Calendar == << <<2024, 1, 31>>, <<2024, 2, 28>>, <<2025, 1, 10>>, <<2025, 1, 11>> >>

\* dates are <<year, month, day>>
DateLt(a, b) ==
    \/ a[1] < b[1]
    \/ a[1] = b[1] /\ a[2] < b[2]
    \/ a[1] = b[1] /\ a[2] = b[2] /\ a[3] < b[3]

PORTFOLIO_LIST == <<"A", "B", "C">>
Symbols == {PORTFOLIO_LIST[i] : i \in 1..Len(PORTFOLIO_LIST)}

Position(s) ==
    CASE s = "A" -> [Stock_Symbol |-> "A", Purchase_Price |-> 100, Quantity |-> 10]
      [] s = "B" -> [Stock_Symbol |-> "B", Purchase_Price |-> 200, Quantity |-> 10]
      [] s = "C" -> [Stock_Symbol |-> "C", Purchase_Price |-> 50, Quantity |-> 10]

\* the holdings tables the spreadsheet can contain
Portfolios ==
    { <<Position("A"), Position("B"), Position("C")>>,
      <<Position("C"), Position("A"), Position("B")>>,
      <<Position("B"), Position("A")>>,
      <<Position("A")>> }

\* what the price lookups of one run can give, per symbol: a lookup raises
\* (ok = FALSE) or returns a price, where 0 stands for a missing
\* regularMarketPrice
Outcomes(prices) ==
    {[ok |-> FALSE, price |-> 0]} \cup {[ok |-> TRUE, price |-> p] : p \in prices}

RichQuotes ==
    [s \in Symbols |->
        CASE s = "A" -> Outcomes({0, 120, 121})
          [] s = "B" -> Outcomes({180})
          [] s = "C" -> Outcomes({50})]

SparseQuotes ==
    [s \in Symbols |->
        CASE s = "A" -> Outcomes({120})
          [] s = "B" -> Outcomes({180})
          [] s = "C" -> Outcomes({})]

\* a value of ALERT_THRESHOLD: a number, or a string
Number(n) == [isNumber |-> TRUE, number |-> n, text |-> ""]
Text(t) == [isNumber |-> FALSE, number |-> 0, text |-> t]

\* the values of ALERT_THRESHOLD: the string of line 41, and numbers it is
\* replaced with
Thresholds == {Text("Percentage"), Number(0), Number(10), Number(20)}

\* ------------------------------------------------------------------------
\* State
\* ------------------------------------------------------------------------
VARIABLES
    \* environment of portfolio_tracker.py
    holdings,           \* rows of the holdings spreadsheet sample_portfolio.xlsx
    holdings_exists,    \* whether that file is there
    clock,              \* index into Calendar of the date datetime.now() shows
    history_file,       \* sheet Performance_History of the output workbook
    ALERT_THRESHOLD,    \* the configured alert threshold
    quotes,             \* what the price feed can answer, per symbol
    faults,             \* the collaborators that fail: "holdings" (the holdings
                        \* file cannot be read), "chart", "email", "excel"
    \* PortfolioTracker
    portfolio_data,     \* self.portfolio_data
    current_prices,     \* self.current_prices
    daily_report,       \* self.daily_report
    alerts,             \* the list check_alerts returned
    pc,                 \* the step of the cycle the tracker is at
    last_fetched,       \* what the lookups of the latest get_current_prices gave
    run,                \* the locals of run_daily_tracker: chart_filename,
                        \* html_content, email_sent, excel_updated
    exit_code,          \* << >> while main runs, then <<its exit code>>
    \* PortfolioAnalyzer
    performance_history, \* self.performance_history
    monthly_returns,     \* self.monthly_returns
    max_drawdown,        \* the value calculate_max_drawdown returned
    apc,                 \* the calls made on the analyzer so far
    risk_metrics,        \* the dicts calculate_risk_metrics returned, in call order
    analyzer_portfolio_data, \* the analyzer's self.portfolio_data
    synthesized,         \* the tables create_performance_data_from_portfolio built
    analyzer_exit_code,  \* << >> while the analyzer's main runs, then <<its exit code>>
    stock_performance    \* self.stock_performance

\* the environment of a run, which no step of the program changes
envVars == <<ALERT_THRESHOLD, quotes, faults>>
\* the holdings file, which create_sample_portfolio writes
fileVars == <<holdings, holdings_exists>>
trackerVars == <<holdings, holdings_exists, clock, history_file, ALERT_THRESHOLD, quotes, faults,
                 portfolio_data, current_prices, daily_report, alerts, pc,
                 last_fetched, run, exit_code>>
analyzerVars == <<performance_history, monthly_returns, max_drawdown, apc, risk_metrics,
                  analyzer_portfolio_data, synthesized, analyzer_exit_code,
                  stock_performance>>
vars == <<holdings, holdings_exists, clock, history_file, ALERT_THRESHOLD, quotes, faults,
          portfolio_data, current_prices, daily_report, alerts, pc,
          last_fetched, run, exit_code,
          performance_history, monthly_returns, max_drawdown, apc, risk_metrics,
          analyzer_portfolio_data, synthesized, analyzer_exit_code,
          stock_performance>>

\* a Python None next to a table: isNone tells which
NoneTable == [isNone |-> TRUE, rows |-> << >>]
Table(rows) == [isNone |-> FALSE, rows |-> rows]

Today == Calendar[clock]

\* ------------------------------------------------------------------------
\* PortfolioTracker
\* ------------------------------------------------------------------------
\* no lookup made yet
NotFetched == [s \in Symbols |-> [ok |-> FALSE, price |-> 0]]

\* the locals of run_daily_tracker before the steps that assign them
NoRun == [chart_filename |-> "", html_content |-> "",
          email_sent |-> FALSE, excel_updated |-> FALSE]

\* PortfolioTracker.__init__, in a process that has not ended
TrackerInit ==
    /\ portfolio_data = NoneTable
    /\ current_prices = << >>
    /\ daily_report = [isNone |-> TRUE]
    /\ alerts = << >>
    /\ pc = "new"
    /\ last_fetched = NotFetched
    /\ run = NoRun
    /\ exit_code = << >>

\* the table create_sample_portfolio builds, lines 403-415: a row for each
\* symbol of PORTFOLIO_LIST (here its first three, TATAMOTORS, TATASTEEL and
\* INFY) with its company name, purchase date, purchase price, quantity and
\* Total_Investment = Purchase_Price * Quantity
SampleDates == << <<2024, 1, 15>>, <<2024, 1, 20>>, <<2024, 2, 1>> >>
SampleNames == <<"Tata Motors", "Tata Steel", "Infosys">>
SamplePrices == <<800, 120, 1500>>
SampleQuantities == <<100, 500, 50>>

sample_portfolio ==
    [i \in 1..Len(PORTFOLIO_LIST) |->
        [Stock_Symbol |-> PORTFOLIO_LIST[i],
         Company_Name |-> SampleNames[i],
         Purchase_Date |-> SampleDates[i],
         Purchase_Price |-> SamplePrices[i],
         Quantity |-> SampleQuantities[i],
         Total_Investment |-> SamplePrices[i] * SampleQuantities[i]]]

\* create_sample_portfolio, lines 401-422: writes the holdings file, over the
\* one that is there; the system test calls it before it makes its tracker
create_sample_portfolio ==
    /\ pc \in {"start", "new"}
    /\ holdings' = sample_portfolio
    /\ holdings_exists' = TRUE
    /\ UNCHANGED <<clock, history_file, portfolio_data, current_prices, daily_report,
                   alerts, pc, last_fetched, run, exit_code>>
    /\ UNCHANGED envVars
    /\ UNCHANGED analyzerVars

\* main(), lines 424-435: a new process writes the sample holdings when there
\* is no holdings file, and constructs a new tracker
NewTracker ==
    /\ pc \in {"start", "done", "returned_false", "raised", "raised_in_alerts"}
    /\ IF holdings_exists
       THEN UNCHANGED fileVars
       ELSE /\ holdings' = sample_portfolio
            /\ holdings_exists' = TRUE
    /\ portfolio_data' = NoneTable
    /\ current_prices' = << >>
    /\ daily_report' = [isNone |-> TRUE]
    /\ alerts' = << >>
    /\ pc' = "new"
    /\ last_fetched' = NotFetched
    /\ run' = NoRun
    /\ exit_code' = << >>
    /\ UNCHANGED <<clock, history_file>>
    /\ UNCHANGED envVars
    /\ UNCHANGED analyzerVars

\* the calendar date moves on, between two runs or while one is under way
Tick ==
    /\ clock < MaxDay
    /\ clock' = clock + 1
    /\ UNCHANGED <<history_file, portfolio_data, current_prices, daily_report, alerts,
                   pc, last_fetched, run, exit_code>>
    /\ UNCHANGED envVars
    /\ UNCHANGED fileVars
    /\ UNCHANGED analyzerVars

\* run_daily_tracker, step 1: load_portfolio_data, read_excel of the holdings
\* file.  When the file cannot be read the method returns False and
\* run_daily_tracker returns False at line 362.  A cycle is started only while
\* the stored history is shorter than MaxHistory (the bound of the model on the
\* number of rows)
load_portfolio_data ==
    /\ pc \in {"new", "done"}
    /\ exit_code = << >>
    /\ Len(history_file.rows) < MaxHistory
    /\ IF "holdings" \in faults \/ ~holdings_exists
       THEN /\ pc' = "returned_false"
            /\ UNCHANGED portfolio_data
       ELSE /\ pc' = "loaded"
            /\ portfolio_data' = Table(holdings)
    /\ run' = NoRun
    /\ UNCHANGED <<clock, history_file, current_prices, daily_report, alerts,
                   last_fetched, exit_code>>
    /\ UNCHANGED envVars
    /\ UNCHANGED fileVars
    /\ UNCHANGED analyzerVars

\* the loop body of get_current_prices for the symbols PORTFOLIO_LIST[i..],
\* with fetched[s] what the lookup of s gives: a truthy price is stored, a
\* lookup that raises or gives no price leaves the mapping as it was
RECURSIVE FetchLoop(_, _, _)
FetchLoop(prices, fetched, i) ==
    IF i > Len(PORTFOLIO_LIST) THEN prices
    ELSE LET symbol == PORTFOLIO_LIST[i]
             out == fetched[symbol]
             next == IF out.ok /\ out.price # 0
                     THEN [s \in (DOMAIN prices) \cup {symbol} |->
                              IF s = symbol THEN out.price ELSE prices[s]]
                     ELSE prices
         IN  FetchLoop(next, fetched, i + 1)

get_current_prices ==
    /\ pc = "loaded"
    /\ \E fetched \in [Symbols -> UNION {quotes[s] : s \in Symbols}] :
         /\ \A s \in Symbols : fetched[s] \in quotes[s]
         /\ current_prices' = FetchLoop(current_prices, fetched, 1)
         /\ last_fetched' = fetched
    /\ pc' = "priced"
    /\ UNCHANGED <<clock, history_file, portfolio_data, daily_report, alerts,
                   run, exit_code>>
    /\ UNCHANGED envVars
    /\ UNCHANGED fileVars
    /\ UNCHANGED analyzerVars

\* mutant of MapPrice: a symbol without an entry is priced 0
MapPriceZero(prices, symbol) ==
    IF symbol \in DOMAIN prices THEN FromInt(prices[symbol]) ELSE FromInt(0)

\* Series.map(dict): a symbol without an entry maps to a missing cell
MapPrice(prices, symbol) ==
    IF symbol \in DOMAIN prices THEN FromInt(prices[symbol]) ELSE NaN

\* the computed columns of one row, lines 90-96
PricedRow(row, prices) ==
    LET Current_Price == MapPrice(prices, row.Stock_Symbol)
        Current_Value == FMul(Current_Price, FromInt(row.Quantity))
        Total_Investment == FMul(FromInt(row.Purchase_Price), FromInt(row.Quantity))
        Unrealized_PL == FSub(Current_Value, Total_Investment)
        PL_Percentage == FMul(FDiv(Unrealized_PL, Total_Investment), F100)
    IN  [f \in (DOMAIN row) \cup {"Current_Price", "Current_Value", "Total_Investment",
                                   "Unrealized_PL", "PL_Percentage"} |->
            CASE f = "Current_Price" -> Current_Price
              [] f = "Current_Value" -> Current_Value
              [] f = "Total_Investment" -> Total_Investment
              [] f = "Unrealized_PL" -> Unrealized_PL
              [] f = "PL_Percentage" -> PL_Percentage
              [] OTHER -> row[f]]

\* the portfolio totals, lines 99-111
DailyReport(rows, date) ==
    LET total_investment == SumSkipNa(Column(rows, "Total_Investment"))
        total_current_value == SumSkipNa(Column(rows, "Current_Value"))
        total_pl == FSub(total_current_value, total_investment)
        total_pl_percentage == FMul(FDiv(total_pl, total_investment), F100)
    IN  [isNone |-> FALSE,
         date |-> date,
         total_investment |-> total_investment,
         total_current_value |-> total_current_value,
         total_pl |-> total_pl,
         total_pl_percentage |-> total_pl_percentage]

\* run_daily_tracker, step 3.  On a table with rows the totals are numpy
\* numbers, whose division gives NaN or an infinity where the divisor is 0.  The
\* columns of a table without rows are of dtype object and their sums are the
\* Python int 0, so that 0 / 0 at line 102 raises ZeroDivisionError; nothing
\* catches it, and the process ends with the traceback
\* mutant of TotalsRaise: the division of the totals never raises
TotalsNeverRaise(rows) == FALSE

\* line 102 raises ZeroDivisionError: the totals are Python ints and the
\* divisor is 0, which is so for the table without rows
TotalsRaise(rows) == rows = << >>

calculate_portfolio_performance ==
    /\ pc = "priced"
    /\ ~portfolio_data.isNone
    /\ LET rows == [i \in 1..Len(portfolio_data.rows) |->
                       PricedRow(portfolio_data.rows[i], current_prices)]
       IN  /\ portfolio_data' = Table(rows)
           /\ IF TotalsRaise(rows)
              THEN /\ pc' = "raised"
                   /\ UNCHANGED daily_report
              ELSE /\ pc' = "calculated"
                   /\ daily_report' = DailyReport(rows, Today)
    /\ UNCHANGED <<clock, history_file, current_prices, alerts,
                   last_fetched, run, exit_code>>
    /\ UNCHANGED envVars
    /\ UNCHANGED fileVars
    /\ UNCHANGED analyzerVars

\* mutant of Alert: the comparison that picks the label is turned round
AlertTurned(row, threshold) ==
    [symbol |-> row.Stock_Symbol,
     type |-> IF FGt(row.PL_Percentage, FNeg(threshold))
              THEN "LOSS ALERT" ELSE "PROFIT ALERT",
     pl_percentage |-> row.PL_Percentage,
     current_price |-> row.Current_Price]

\* the alert of one row, lines 125-131 (the labels without their emoji)
Alert(row, threshold) ==
    [symbol |-> row.Stock_Symbol,
     type |-> IF FLt(row.PL_Percentage, FNeg(threshold))
              THEN "LOSS ALERT" ELSE "PROFIT ALERT",
     pl_percentage |-> row.PL_Percentage,
     current_price |-> row.Current_Price]

\* mutant of AlertLoop: a position at the threshold alerts too (>= for >)
RECURSIVE AlertLoopInclusive(_, _)
AlertLoopInclusive(rows, threshold) ==
    IF rows = << >> THEN << >>
    ELSE LET row == Head(rows)
             rest == AlertLoopInclusive(Tail(rows), threshold)
         IN  IF ~IsNaN(row.PL_Percentage) /\ ~FLt(FAbs(row.PL_Percentage), threshold)
             THEN <<Alert(row, threshold)>> \o rest
             ELSE rest

\* the loop of check_alerts over the rows, in row order
RECURSIVE AlertLoop(_, _)
AlertLoop(rows, threshold) ==
    IF rows = << >> THEN << >>
    ELSE LET row == Head(rows)
             rest == AlertLoop(Tail(rows), threshold)
         IN  IF FGt(FAbs(row.PL_Percentage), threshold)
             THEN <<Alert(row, threshold)>> \o rest
             ELSE rest

\* line 124 raises TypeError: abs(pl_percentage) > ALERT_THRESHOLD compares a
\* float with a string, for the first row the loop comes to
ComparisonRaises(rows, threshold) == rows # << >> /\ ~threshold.isNumber

\* run_daily_tracker, step 4.  When the comparison raises nothing catches the
\* TypeError: no list is returned and the process ends with the traceback
check_alerts ==
    /\ pc = "calculated"
    /\ IF ComparisonRaises(portfolio_data.rows, ALERT_THRESHOLD)
       THEN /\ pc' = "raised_in_alerts"
            /\ UNCHANGED alerts
       ELSE /\ alerts' = AlertLoop(portfolio_data.rows, FromInt(ALERT_THRESHOLD.number))
            /\ pc' = "alerted"
    /\ UNCHANGED <<clock, history_file, portfolio_data, current_prices, daily_report,
                   last_fetched, run, exit_code>>
    /\ UNCHANGED envVars
    /\ UNCHANGED fileVars
    /\ UNCHANGED analyzerVars

\* run_daily_tracker, step 5: create_portfolio_charts returns the name of the
\* file it saved, or None (here "None") when drawing or saving raised
create_portfolio_charts ==
    /\ pc = "alerted"
    /\ run' = [run EXCEPT !.chart_filename =
                  IF "chart" \in faults THEN "None" ELSE "portfolio_chart.png"]
    /\ pc' = "charted"
    /\ UNCHANGED <<clock, history_file, portfolio_data, current_prices, daily_report,
                   alerts, last_fetched, exit_code>>
    /\ UNCHANGED envVars
    /\ UNCHANGED fileVars
    /\ UNCHANGED analyzerVars

\* run_daily_tracker, step 6: generate_email_report composes the HTML document
\* from the report, the rows and the alerts; it does not read chart_filename
generate_email_report ==
    /\ pc = "charted"
    /\ run' = [run EXCEPT !.html_content = "html"]
    /\ pc' = "composed"
    /\ UNCHANGED <<clock, history_file, portfolio_data, current_prices, daily_report,
                   alerts, last_fetched, exit_code>>
    /\ UNCHANGED envVars
    /\ UNCHANGED fileVars
    /\ UNCHANGED analyzerVars

\* run_daily_tracker, step 7: send_email_report returns True, or False when
\* building or sending the message raised
send_email_report ==
    /\ pc = "composed"
    /\ run' = [run EXCEPT !.email_sent = "email" \notin faults]
    /\ pc' = "emailed"
    /\ UNCHANGED <<clock, history_file, portfolio_data, current_prices, daily_report,
                   alerts, last_fetched, exit_code>>
    /\ UNCHANGED envVars
    /\ UNCHANGED fileVars
    /\ UNCHANGED analyzerVars

\* the one-row table of lines 322-328 and 334-340
SummaryRow(report) ==
    [Date |-> report.date,
     Total_Investment |-> report.total_investment,
     Current_Value |-> report.total_current_value,
     Total_PL |-> report.total_pl,
     Total_PL_Percentage |-> report.total_pl_percentage]

\* lines 331-345.  read_ok: read_excel of the output workbook gave the sheet
\* Performance_History.  It raises when the workbook or the sheet is not there.
\* It also raises when the workbook is there but pd.ExcelWriter, entered at
\* line 317 in mode "w", has already opened the same path for writing and so
\* emptied it (pandas >= 1.2); under an older pandas the writer leaves the file
\* alone until it is saved and the read succeeds.  Both outcomes are kept.
UpdatedHistory(existing, report, read_ok) ==
    IF read_ok
    THEN existing \o <<SummaryRow(report)>>
    ELSE <<SummaryRow(report)>>

\* the table with the column Last_Updated of line 314
WithLastUpdated(rows, now) ==
    [i \in 1..Len(rows) |->
        [f \in (DOMAIN rows[i]) \cup {"Last_Updated"} |->
            IF f = "Last_Updated" THEN now ELSE rows[i][f]]]

\* run_daily_tracker, steps 8 and 9: update_portfolio_excel returns True, or
\* False when the workbook cannot be written (the outer except of line 350),
\* and run_daily_tracker returns True after its summary
update_portfolio_excel ==
    /\ pc = "emailed"
    /\ portfolio_data' = Table(WithLastUpdated(portfolio_data.rows, Today))
    /\ IF "excel" \in faults
       THEN /\ UNCHANGED history_file
            /\ run' = [run EXCEPT !.excel_updated = FALSE]
       ELSE /\ \E read_ok \in BOOLEAN :
                 /\ read_ok => history_file.exists
                 /\ history_file' =
                      [exists |-> TRUE,
                       rows |-> UpdatedHistory(history_file.rows, daily_report, read_ok)]
            /\ run' = [run EXCEPT !.excel_updated = TRUE]
    /\ pc' = "done"
    /\ UNCHANGED <<clock, current_prices, daily_report, alerts, last_fetched, exit_code>>
    /\ UNCHANGED envVars
    /\ UNCHANGED fileVars
    /\ UNCHANGED analyzerVars

\* mutant of ExitCode: a run whose email or workbook failed exits with 1
ExitCodeStrict(at, locals) ==
    IF at = "done" /\ locals.email_sent /\ locals.excel_updated THEN 0 ELSE 1

\* the exit code of the process, from where run_daily_tracker ended
ExitCode(at, locals) == IF at = "done" THEN 0 ELSE 1

\* main(), lines 438-446, and the interpreter: exit code 0 when
\* run_daily_tracker returned True, sys.exit(1) when it returned False, and
\* exit code 1 with a traceback when an exception got out of it
main_exit ==
    /\ pc \in {"done", "returned_false", "raised", "raised_in_alerts"}
    /\ exit_code = << >>
    /\ exit_code' = <<ExitCode(pc, run)>>
    /\ UNCHANGED <<clock, history_file, portfolio_data, current_prices, daily_report,
                   alerts, pc, last_fetched, run>>
    /\ UNCHANGED envVars
    /\ UNCHANGED fileVars
    /\ UNCHANGED analyzerVars

\* ------------------------------------------------------------------------
\* PortfolioAnalyzer
\* ------------------------------------------------------------------------
\* the analyzer's main(), lines 296-299: load_portfolio_data reads the holdings
\* file; when that fails it returns False and main returns at line 299
analyzer_load_portfolio_data ==
    /\ apc = "off"
    /\ analyzer_portfolio_data.isNone
    /\ analyzer_exit_code = << >>
    /\ IF "holdings" \in faults \/ ~holdings_exists
       THEN /\ apc' = "returned"
            /\ UNCHANGED analyzer_portfolio_data
       ELSE /\ analyzer_portfolio_data' = Table(holdings)
            /\ UNCHANGED apc
    /\ UNCHANGED <<performance_history, monthly_returns, max_drawdown, risk_metrics,
                   synthesized, analyzer_exit_code>>
    /\ UNCHANGED stock_performance
    /\ UNCHANGED trackerVars

\* the interpreter after main returned at line 299: the process ends with
\* exit code 0
analyzer_main_returned ==
    /\ apc = "returned"
    /\ analyzer_exit_code = << >>
    /\ analyzer_exit_code' = <<0>>
    /\ UNCHANGED <<performance_history, monthly_returns, max_drawdown, apc, risk_metrics,
                   analyzer_portfolio_data, synthesized>>
    /\ UNCHANGED stock_performance
    /\ UNCHANGED trackerVars

\* sort_values('Date'): the rows in date order, rows of one date in the order
\* they had (insertion into the sorted prefix, after the rows not later)
DateLe(a, b) == a = b \/ DateLt(a, b)

RECURSIVE InsertByDate(_, _)
InsertByDate(sorted, row) ==
    IF sorted = << >> THEN <<row>>
    ELSE IF DateLe(sorted[Len(sorted)].Date, row.Date) THEN Append(sorted, row)
    ELSE Append(InsertByDate(SubSeq(sorted, 1, Len(sorted) - 1), row),
                sorted[Len(sorted)])

RECURSIVE SortByDate(_)
SortByDate(rows) ==
    IF rows = << >> THEN << >>
    ELSE InsertByDate(SortByDate(SubSeq(rows, 1, Len(rows) - 1)), rows[Len(rows)])

\* load_performance_history, lines 81-87, when the sheet can be read
load_performance_history ==
    /\ apc = "off"
    /\ history_file.exists
    /\ performance_history' = Table(SortByDate(history_file.rows))
    /\ apc' = "loaded"
    /\ UNCHANGED <<monthly_returns, max_drawdown, risk_metrics,
                   analyzer_portfolio_data, synthesized, analyzer_exit_code>>
    /\ UNCHANGED stock_performance
    /\ UNCHANGED trackerVars

MonthNames == <<"January", "February", "March", "April", "May", "June", "July",
                "August", "September", "October", "November", "December">>
MonthAbbr == <<"Jan", "Feb", "Mar", "Apr", "May", "Jun", "Jul",
               "Aug", "Sep", "Oct", "Nov", "Dec">>

\* mutant of YearMonth: the rows are grouped by the month alone
MonthOnly(date) == <<0, date[2]>>

\* dt.to_period('M'): the calendar month of a date, year and month
YearMonth(date) == <<date[1], date[2]>>

PeriodLt(a, b) == a[1] < b[1] \/ (a[1] = b[1] /\ a[2] < b[2])

\* the columns lines 160-163 add to a row of the history
WithMonthColumns(row) ==
    [f \in (DOMAIN row) \cup {"Year", "Month", "Month_Name", "Year_Month"} |->
        CASE f = "Year" -> row.Date[1]
          [] f = "Month" -> row.Date[2]
          [] f = "Month_Name" -> MonthNames[row.Date[2]]
          [] f = "Year_Month" -> YearMonth(row.Date)
          [] OTHER -> row[f]]

\* the group keys of groupby('Year_Month'), in ascending order
RECURSIVE SortedPeriods(_)
SortedPeriods(S) ==
    IF S = {} THEN << >>
    ELSE LET least == CHOOSE a \in S : \A b \in S : a = b \/ PeriodLt(a, b)
         IN  <<least>> \o SortedPeriods(S \ {least})

\* the rows of one group, in the order of the table
RowsOfPeriod(rows, period) == SelectSeq(rows, LAMBDA r : r.Year_Month = period)

\* aggregations 'first' and 'last': the first and the last cell that is not
\* missing, a missing cell when there is none
RECURSIVE FirstValid(_)
FirstValid(cells) ==
    IF cells = << >> THEN NaN
    ELSE IF ~IsNaN(Head(cells)) THEN Head(cells)
    ELSE FirstValid(Tail(cells))

RECURSIVE LastValid(_)
LastValid(cells) ==
    IF cells = << >> THEN NaN
    ELSE IF ~IsNaN(cells[Len(cells)]) THEN cells[Len(cells)]
    ELSE LastValid(SubSeq(cells, 1, Len(cells) - 1))

\* the aggregated row of one group, lines 166-172
MonthlyAgg(rows, period) ==
    LET g == RowsOfPeriod(rows, period)
    IN  [Year_Month |-> period,
         Date |-> g[Len(g)].Date,
         Total_Investment |-> FirstValid(Column(g, "Total_Investment")),
         Current_Value |-> LastValid(Column(g, "Current_Value")),
         Total_PL |-> LastValid(Column(g, "Total_PL")),
         Total_PL_Percentage |-> LastValid(Column(g, "Total_PL_Percentage"))]

\* mutant of PctChange: the difference is not divided by the previous value
PctChangeNoDivision(cells) ==
    [i \in 1..Len(cells) |->
        IF i = 1 THEN NaN ELSE FSub(cells[i], cells[i - 1])]

\* Series.pct_change(): cell / previous cell - 1, the first one missing.  (The
\* series it is applied to hold no missing cell, so that its forward fill of
\* missing cells changes nothing.)
PctChange(cells) ==
    [i \in 1..Len(cells) |->
        IF i = 1 THEN NaN ELSE FSub(FDiv(cells[i], cells[i - 1]), FromInt(1))]

FillNa0(x) == IF IsNaN(x) THEN FromInt(0) ELSE x

\* lines 166-182: the monthly table
MonthlyData(rows) ==
    LET periods == SortedPeriods({rows[i].Year_Month : i \in 1..Len(rows)})
        agg == [k \in 1..Len(periods) |-> MonthlyAgg(rows, periods[k])]
        change == PctChange(Column(agg, "Total_PL_Percentage"))
    IN  [k \in 1..Len(agg) |->
            [Year_Month |-> agg[k].Year_Month,
             Date |-> agg[k].Date,
             Total_Investment |-> agg[k].Total_Investment,
             Current_Value |-> agg[k].Current_Value,
             Total_PL |-> agg[k].Total_PL,
             Total_PL_Percentage |-> agg[k].Total_PL_Percentage,
             Monthly_Return |-> FillNa0(FMul(change[k], F100)),
             Cumulative_Return |-> agg[k].Total_PL_Percentage,
             Month_Display |-> <<MonthAbbr[agg[k].Date[2]], agg[k].Date[1]>>]]

calculate_monthly_returns ==
    /\ apc = "loaded"
    /\ ~performance_history.isNone
    /\ monthly_returns.isNone
    /\ LET rows == [i \in 1..Len(performance_history.rows) |->
                       WithMonthColumns(performance_history.rows[i])]
       IN  /\ performance_history' = Table(rows)
           /\ monthly_returns' = Table(MonthlyData(rows))
    /\ UNCHANGED <<max_drawdown, apc, risk_metrics,
                   analyzer_portfolio_data, synthesized, analyzer_exit_code>>
    /\ UNCHANGED stock_performance
    /\ UNCHANGED trackerVars

\* Series.cumprod()
RECURSIVE CumProd(_)
CumProd(cells) ==
    IF cells = << >> THEN << >>
    ELSE LET before == CumProd(SubSeq(cells, 1, Len(cells) - 1))
         IN  IF before = << >> THEN <<cells[1]>>
             ELSE Append(before, FMul(before[Len(before)], cells[Len(cells)]))

FMax(a, b) == IF FLt(a, b) THEN b ELSE a

\* Series.expanding().max()
RECURSIVE RunningMax(_)
RunningMax(cells) ==
    IF cells = << >> THEN << >>
    ELSE LET before == RunningMax(SubSeq(cells, 1, Len(cells) - 1))
         IN  IF before = << >> THEN <<cells[1]>>
             ELSE Append(before, FMax(before[Len(before)], cells[Len(cells)]))

\* Series.min(): missing cells are skipped; missing when there is no other
RECURSIVE MinSkipNa(_)
MinSkipNa(cells) ==
    IF cells = << >> THEN NaN
    ELSE LET rest == MinSkipNa(Tail(cells))
         IN  IF IsNaN(Head(cells)) THEN rest
             ELSE IF IsNaN(rest) THEN Head(cells)
             ELSE IF FLt(rest, Head(cells)) THEN rest ELSE Head(cells)

\* lines 241-245, from the column the product is taken of
DrawdownOf(growth) ==
    LET cumulative == CumProd(growth)
        running_max == RunningMax(cumulative)
        drawdown == [i \in 1..Len(cumulative) |->
                        FMul(FDiv(FSub(cumulative[i], running_max[i]),
                                  running_max[i]), F100)]
    IN  MinSkipNa(drawdown)

\* mutant of GrowthColumn: the percentage is compounded without the 1 +
GrowthColumnWithoutOne(rows) ==
    [i \in 1..Len(rows) |-> FDiv(rows[i].Total_PL_Percentage, F100)]

\* 1 + Total_PL_Percentage / 100, line 241
GrowthColumn(rows) ==
    [i \in 1..Len(rows) |->
        FAdd(FromInt(1), FDiv(rows[i].Total_PL_Percentage, F100))]

calculate_max_drawdown ==
    /\ apc = "loaded"
    /\ ~performance_history.isNone
    /\ max_drawdown.isNone
    /\ max_drawdown' =
         [isNone |-> FALSE,
          value |-> DrawdownOf(GrowthColumn(performance_history.rows))]
    /\ UNCHANGED <<performance_history, monthly_returns, apc, risk_metrics,
                   analyzer_portfolio_data, synthesized, analyzer_exit_code>>
    /\ UNCHANGED stock_performance
    /\ UNCHANGED trackerVars

\* ------------------------------------------------------------------------
\* Square roots.  A cell of kind "surd" is the irrational sign(n) * sqrt(|n|/d);
\* the root of a square of a fraction is that fraction, a cell of kind "num"
\* ------------------------------------------------------------------------
RECURSIVE ISqrtIn(_, _, _)
ISqrtIn(x, lo, hi) ==
    IF lo >= hi THEN lo
    ELSE LET mid == (lo + hi + 1) \div 2
         IN  IF mid * mid <= x THEN ISqrtIn(x, mid, hi) ELSE ISqrtIn(x, lo, mid - 1)

\* the integer part of the square root of a natural number (46340 is the
\* largest root whose square is a 32-bit integer)
ISqrt(x) == ISqrtIn(x, 0, IF x < 46340 THEN x ELSE 46340)

IsSquare(x) == ISqrt(x) * ISqrt(x) = x
IsSurd(x) == x.k = "surd"

\* sign * sqrt(q), for a fraction q >= 0
FromRoot(sign, q) ==
    IF sign = 0 \/ q.n = 0 THEN FromInt(0)
    ELSE IF IsSquare(q.n) /\ IsSquare(q.d) THEN Norm(sign * ISqrt(q.n), ISqrt(q.d))
    ELSE [k |-> "surd", n |-> sign * q.n, d |-> q.d]

\* the square of a finite cell, a fraction
Squared(x) == IF IsSurd(x) THEN Norm(Abs(x.n), x.d) ELSE FMul(x, x)

\* np.sqrt
FSqrt(x) ==
    IF IsNaN(x) THEN NaN
    ELSE IF IsInf(x) THEN (IF x.n > 0 THEN x ELSE NaN)
    ELSE IF x.n < 0 THEN NaN
    ELSE FromRoot(1, x)

\* float * and / where an operand can be a surd
SMul(a, b) ==
    IF IsNaN(a) \/ IsNaN(b) THEN NaN
    ELSE IF IsInf(a) \/ IsInf(b)
         THEN (IF Sign(a) * Sign(b) = 0 THEN NaN ELSE Inf(Sign(a) * Sign(b)))
    ELSE FromRoot(Sign(a) * Sign(b), FMul(Squared(a), Squared(b)))

SDiv(a, b) ==
    IF IsNaN(a) \/ IsNaN(b) THEN NaN
    ELSE IF IsInf(a) /\ IsInf(b) THEN NaN
    ELSE IF IsInf(a) THEN Inf(IF Sign(b) < 0 THEN -a.n ELSE a.n)
    ELSE IF IsInf(b) THEN FromInt(0)
    ELSE IF b.n = 0 THEN (IF a.n = 0 THEN NaN ELSE Inf(Sign(a)))
    ELSE FromRoot(Sign(a) * Sign(b), FDiv(Squared(a), Squared(b)))

\* ------------------------------------------------------------------------
\* calculate_risk_metrics
\* ------------------------------------------------------------------------
MaxCalls == 2

\* Series.dropna()
DropNa(cells) == SelectSeq(cells, LAMBDA x : ~IsNaN(x))

\* mutant of ReturnsColumn: the column is taken by its position, the last one
\* of the table, which is Month once calculate_monthly_returns has run
ReturnsColumnByPosition(rows) ==
    IF "Month" \in DOMAIN rows[1]
    THEN [i \in 1..Len(rows) |-> FromInt(rows[i].Month)]
    ELSE Column(rows, "Total_PL_Percentage")

\* self.performance_history['Total_PL_Percentage']
ReturnsColumn(rows) == Column(rows, "Total_PL_Percentage")

\* line 219: pct_change().dropna()
DailyReturns(rows) == DropNa(PctChange(ReturnsColumn(rows)))

\* Series.mean(): the sum over the count; missing when the series is empty
Mean(cells) == FDiv(SumSkipNa(cells), FromInt(Len(cells)))

\* the variance with ddof delta degrees of freedom: missing when the count is
\* not above ddof, and when a value is infinite (inf - inf)
Var(cells, ddof) ==
    IF Len(cells) <= ddof THEN NaN
    ELSE IF \E i \in 1..Len(cells) : ~IsNum(cells[i]) THEN NaN
    ELSE LET avg == Mean(cells)
             sqr == [i \in 1..Len(cells) |->
                        FMul(FSub(avg, cells[i]), FSub(avg, cells[i]))]
         IN  FDiv(SumSkipNa(sqr), FromInt(Len(cells) - ddof))

\* mutant of Std: the population standard deviation (ddof = 0)
StdPopulation(cells) == FSqrt(Var(cells, 0))

\* Series.std(): the sample standard deviation (ddof = 1)
Std(cells) == FSqrt(Var(cells, 1))

\* Series.max(): missing cells are skipped; missing when there is no other
RECURSIVE MaxSkipNa(_)
MaxSkipNa(cells) ==
    IF cells = << >> THEN NaN
    ELSE LET rest == MaxSkipNa(Tail(cells))
         IN  IF IsNaN(Head(cells)) THEN rest
             ELSE IF IsNaN(rest) THEN Head(cells)
             ELSE IF FLt(Head(cells), rest) THEN rest ELSE Head(cells)

\* (daily_returns > 0).sum()
CountPositive(cells) == Len(SelectSeq(cells, LAMBDA x : FGt(x, FromInt(0))))

\* the dict of lines 222-231
RiskMetrics(rows) ==
    LET daily_returns == DailyReturns(rows)
        annualized == FMul(Mean(daily_returns), FromInt(252))
        volatility == SMul(Std(daily_returns), FSqrt(FromInt(252)))
    IN  [Total_Return |-> ReturnsColumn(rows)[Len(rows)],
         Annualized_Return |-> annualized,
         Volatility |-> volatility,
         Sharpe_Ratio |-> SDiv(annualized, volatility),
         Max_Drawdown |-> DrawdownOf(GrowthColumn(rows)),
         Best_Day |-> FMul(MaxSkipNa(daily_returns), F100),
         Worst_Day |-> FMul(MinSkipNa(daily_returns), F100),
         Positive_Days |-> FMul(FDiv(FromInt(CountPositive(daily_returns)),
                                     FromInt(Len(daily_returns))), F100)]

\* calculate_risk_metrics on a loaded history, at most MaxCalls times
calculate_risk_metrics ==
    /\ apc = "loaded"
    /\ ~performance_history.isNone
    /\ Len(risk_metrics) < MaxCalls
    /\ risk_metrics' = Append(risk_metrics, RiskMetrics(performance_history.rows))
    /\ max_drawdown' =
         [isNone |-> FALSE,
          value |-> DrawdownOf(GrowthColumn(performance_history.rows))]
    /\ UNCHANGED <<performance_history, monthly_returns, apc,
                   analyzer_portfolio_data, synthesized, analyzer_exit_code>>
    /\ UNCHANGED stock_performance
    /\ UNCHANGED trackerVars

\* ------------------------------------------------------------------------
\* create_performance_data_from_portfolio
\* ------------------------------------------------------------------------
MaxSpan == 4

IsLeap(y) == (y % 4 = 0 /\ y % 100 # 0) \/ y % 400 = 0

DaysInMonth(y, m) ==
    IF m = 2 THEN (IF IsLeap(y) THEN 29 ELSE 28)
    ELSE IF m \in {4, 6, 9, 11} THEN 30 ELSE 31

\* the calendar day after and the calendar day before a date
NextDay(date) ==
    IF date[3] < DaysInMonth(date[1], date[2]) THEN <<date[1], date[2], date[3] + 1>>
    ELSE IF date[2] < 12 THEN <<date[1], date[2] + 1, 1>>
    ELSE <<date[1] + 1, 1, 1>>

PrevDay(date) ==
    IF date[3] > 1 THEN <<date[1], date[2], date[3] - 1>>
    ELSE IF date[2] > 1 THEN <<date[1], date[2] - 1, DaysInMonth(date[1], date[2] - 1)>>
    ELSE <<date[1] - 1, 12, 31>>

RECURSIVE DaysBefore(_, _)
DaysBefore(date, k) == IF k = 0 THEN date ELSE DaysBefore(PrevDay(date), k - 1)

\* (b - a).days, for a not after b
RECURSIVE DaysBetween(_, _)
DaysBetween(a, b) == IF a = b THEN 0 ELSE 1 + DaysBetween(NextDay(a), b)

\* datetime.weekday(): 0 for Monday .. 6 for Sunday
Weekday(date) ==
    LET t == <<0, 3, 2, 5, 0, 3, 5, 1, 4, 6, 2, 4>>
        y == IF date[2] < 3 THEN date[1] - 1 ELSE date[1]
        sunday0 == (y + (y \div 4) - (y \div 100) + (y \div 400) + t[date[2]] + date[3]) % 7
    IN  (sunday0 + 6) % 7

\* pd.date_range(start, end, freq='D'): the days from start through end
RECURSIVE DateRange(_, _)
DateRange(start, end) ==
    IF DateLt(end, start) THEN << >>
    ELSE <<start>> \o DateRange(NextDay(start), end)

\* mutant of IsMarketDay: Saturday passes the filter
IsMarketDaySix(date) == Weekday(date) < 6

\* line 111: d.weekday() < 5
IsMarketDay(date) == Weekday(date) < 5

\* Series.min() of the column Purchase_Date
RECURSIVE MinDate(_)
MinDate(dates) ==
    IF Len(dates) = 1 THEN dates[1]
    ELSE LET rest == MinDate(Tail(dates))
         IN  IF DateLt(dates[1], rest) THEN dates[1] ELSE rest

\* the values np.random.normal(0.0008, 0.015) is taken to draw
Draws == {Norm(-1, 100), Norm(1, 50)}

\* the dict of lines 122-144 for one market date and one draw
SynthRow(date, earliest_date, initial_investment, daily_return) ==
    LET days_since_start == DaysBetween(earliest_date, date)
        trend_factor == FAdd(FromInt(1), FMul(FromInt(days_since_start), Norm(1, 10000)))
        current_portfolio_value ==
            FMul(FMul(initial_investment, trend_factor), FAdd(FromInt(1), daily_return))
        total_pl == FSub(current_portfolio_value, initial_investment)
    IN  [Date |-> date,
         Total_Investment |-> initial_investment,
         Current_Value |-> current_portfolio_value,
         Total_PL |-> total_pl,
         Total_PL_Percentage |-> FMul(FDiv(total_pl, initial_investment), F100)]

\* lines 102-114: the market dates and the initial investment
MarketDates(rows, today) ==
    SelectSeq(DateRange(MinDate(Column(rows, "Purchase_Date")), today), IsMarketDay)

InitialInvestment(rows) ==
    SumSkipNa([i \in 1..Len(rows) |->
                  FMul(FromInt(rows[i].Purchase_Price), FromInt(rows[i].Quantity))])

\* create_performance_data_from_portfolio on holdings with a position, with a
\* draw of the unseeded generator for each market date; run at most twice
create_performance_data_from_portfolio ==
    /\ apc \in {"off", "loaded"}
    /\ ~analyzer_portfolio_data.isNone
    /\ analyzer_portfolio_data.rows # << >>
    /\ Len(synthesized) <= 1
    /\ LET rows == analyzer_portfolio_data.rows
           earliest_date == MinDate(Column(rows, "Purchase_Date"))
           market_dates == MarketDates(rows, Today)
       IN  \E draws \in [1..Len(market_dates) -> Draws] :
               LET performance_data ==
                       [i \in 1..Len(market_dates) |->
                           SynthRow(market_dates[i], earliest_date,
                                    InitialInvestment(rows), draws[i])]
               IN  /\ performance_history' = Table(performance_data)
                   /\ synthesized' = Append(synthesized, performance_data)
    /\ apc' = "loaded"
    /\ UNCHANGED <<monthly_returns, max_drawdown, risk_metrics,
                   analyzer_portfolio_data, analyzer_exit_code>>
    /\ UNCHANGED stock_performance
    /\ UNCHANGED trackerVars

\* ------------------------------------------------------------------------
\* Individual stock performance
\* ------------------------------------------------------------------------
\* the analyzer's company names for the symbols of PORTFOLIO_LIST: it has
\* TATASTEEL and INFY (here B and C) and no entry for TATAMOTORS (here A); a
\* symbol without a name maps to a missing cell (here "NaN")
COMPANY_NAMES == [B |-> "Tata Steel", C |-> "Infosys"]

CompanyName(symbol) ==
    IF symbol \in DOMAIN COMPANY_NAMES THEN COMPANY_NAMES[symbol] ELSE "NaN"

\* column / column.sum() * 100, lines 197 and 198: the sum skips the missing
\* cells, the division is numpy's (a divisor 0 gives an infinity or NaN)
PercentOfTotal(cells) ==
    [i \in 1..Len(cells) |-> FMul(FDiv(cells[i], SumSkipNa(cells)), F100)]

\* the table with the columns Weight, Contribution and Company_Name
WithStockColumns(rows) ==
    LET Weight == PercentOfTotal(Column(rows, "Current_Value"))
        Contribution == PercentOfTotal(Column(rows, "Unrealized_PL"))
    IN  [i \in 1..Len(rows) |->
            [f \in (DOMAIN rows[i]) \cup {"Weight", "Contribution", "Company_Name"} |->
                CASE f = "Weight" -> Weight[i]
                  [] f = "Contribution" -> Contribution[i]
                  [] f = "Company_Name" -> CompanyName(rows[i].Stock_Symbol)
                  [] OTHER -> rows[i][f]]]

\* sort_values('PL_Percentage', ascending=False): a has to come before b; a
\* missing cell comes last, and the order of equal cells is not specified
\* (the default sort is not stable)
SortsBefore(a, b) == ~IsNaN(a) /\ (IsNaN(b) \/ FGt(a, b))

\* the orders sort_values can give the rows
DescendingOrders(rows) ==
    {order \in [1..Len(rows) -> 1..Len(rows)] :
        /\ \A j, k \in 1..Len(rows) : order[j] = order[k] => j = k
        /\ \A j, k \in 1..Len(rows) :
              j < k => ~SortsBefore(rows[order[k]].PL_Percentage,
                                    rows[order[j]].PL_Percentage)}

\* analyze_stock_performance on a valued table, lines 197-208; called once
analyze_stock_performance ==
    /\ ~analyzer_portfolio_data.isNone
    /\ analyzer_portfolio_data.rows # << >>
    /\ "Current_Value" \in DOMAIN analyzer_portfolio_data.rows[1]
    /\ stock_performance.isNone
    /\ LET rows == WithStockColumns(analyzer_portfolio_data.rows)
       IN  /\ analyzer_portfolio_data' = Table(rows)
           /\ \E order \in DescendingOrders(rows) :
                 stock_performance' = Table([k \in 1..Len(rows) |-> rows[order[k]]])
    /\ UNCHANGED <<performance_history, monthly_returns, max_drawdown, apc, risk_metrics,
                   synthesized, analyzer_exit_code>>
    /\ UNCHANGED trackerVars

\* ------------------------------------------------------------------------
\* main() of portfolio_performance_analysis.py
\* ------------------------------------------------------------------------
\* load_performance_history returns True: the sheet Performance_History can be
\* read and has a row.  On a sheet without rows the minimum of Date is NaT,
\* whose strftime raises at line 86, and the method returns False
HistoryLoads == history_file.exists /\ history_file.rows # << >>

\* mutant of SynthesizeNeeded: the history is built from the holdings in any case
SynthesizeAlways(loaded) == TRUE

\* line 302: if not analyzer.load_performance_history(...)
SynthesizeNeeded(loaded) == ~loaded

\* lines 301-304: the stored history is loaded, or, when that fails, one is
\* built from the holdings (which replaces whatever the failed load assigned)
main_load_or_create_history ==
    /\ apc = "off"
    /\ ~analyzer_portfolio_data.isNone
    /\ IF SynthesizeNeeded(HistoryLoads)
       THEN create_performance_data_from_portfolio
       ELSE load_performance_history

\* the column Total_Investment of the holdings file, as create_sample_portfolio
\* writes it (portfolio_tracker.py line 415)
FileTotalInvestment(row) == FMul(FromInt(row.Purchase_Price), FromInt(row.Quantity))

\* lines 310-315: the price is taken to be the purchase price * 1.05
AssumedRow(row) ==
    LET Current_Price == FMul(FromInt(row.Purchase_Price), Norm(21, 20))
        Current_Value == FMul(Current_Price, FromInt(row.Quantity))
        Total_Investment == FileTotalInvestment(row)
        Unrealized_PL == FSub(Current_Value, Total_Investment)
        PL_Percentage == FMul(FDiv(Unrealized_PL, Total_Investment), F100)
    IN  [f \in (DOMAIN row) \cup {"Current_Price", "Current_Value", "Total_Investment",
                                   "Unrealized_PL", "PL_Percentage"} |->
            CASE f = "Current_Price" -> Current_Price
              [] f = "Current_Value" -> Current_Value
              [] f = "Total_Investment" -> Total_Investment
              [] f = "Unrealized_PL" -> Unrealized_PL
              [] f = "PL_Percentage" -> PL_Percentage
              [] OTHER -> row[f]]

main_calculate_metrics ==
    /\ apc = "loaded"
    /\ ~analyzer_portfolio_data.isNone
    /\ analyzer_portfolio_data.rows # << >>
    /\ "Current_Value" \notin DOMAIN analyzer_portfolio_data.rows[1]
    /\ analyzer_portfolio_data' =
          Table([i \in 1..Len(analyzer_portfolio_data.rows) |->
                    AssumedRow(analyzer_portfolio_data.rows[i])])
    /\ UNCHANGED <<performance_history, monthly_returns, max_drawdown, apc, risk_metrics,
                   synthesized, analyzer_exit_code>>
    /\ UNCHANGED stock_performance
    /\ UNCHANGED trackerVars

\* the portfolio metrics of lines 310-315 are calculated
MetricsCalculated ==
    /\ ~analyzer_portfolio_data.isNone
    /\ analyzer_portfolio_data.rows # << >>
    /\ "Current_Value" \in DOMAIN analyzer_portfolio_data.rows[1]

\* line 329: generate_performance_report, which calls calculate_risk_metrics
main_generate_performance_report ==
    /\ MetricsCalculated
    /\ risk_metrics = << >>
    /\ calculate_risk_metrics

\* line 339
main_calculate_monthly_returns ==
    /\ Len(risk_metrics) = 1
    /\ calculate_monthly_returns

\* line 340
main_analyze_stock_performance ==
    /\ ~monthly_returns.isNone
    /\ analyze_stock_performance

\* ------------------------------------------------------------------------
\* Specifications
\* ------------------------------------------------------------------------
AnalyzerIdle ==
    /\ performance_history = NoneTable
    /\ monthly_returns = NoneTable
    /\ max_drawdown = [isNone |-> TRUE, value |-> NaN]
    /\ apc = "off"
    /\ risk_metrics = << >>
    /\ analyzer_portfolio_data = NoneTable
    /\ synthesized = << >>
    /\ analyzer_exit_code = << >>
    /\ stock_performance = NoneTable

\* the reporting cycles of run_daily_tracker, one after the other
Init ==
    /\ holdings \in Portfolios
    /\ holdings_exists = TRUE
    /\ clock = 1
    /\ history_file = [exists |-> FALSE, rows |-> << >>]
    /\ ALERT_THRESHOLD \in Thresholds
    /\ quotes = SparseQuotes
    /\ faults = {}
    /\ TrackerInit
    /\ AnalyzerIdle

Next ==
    \/ create_sample_portfolio
    \/ NewTracker
    \/ Tick
    \/ load_portfolio_data
    \/ get_current_prices
    \/ calculate_portfolio_performance
    \/ check_alerts
    \/ create_portfolio_charts
    \/ generate_email_report
    \/ send_email_report
    \/ update_portfolio_excel

Spec == Init /\ [][Next]_vars

\* one valuation of a freshly constructed tracker, as the system test runs it
InitValuation ==
    /\ holdings \in Portfolios
    /\ holdings_exists = TRUE
    /\ clock \in 1..MaxDay
    /\ history_file = [exists |-> FALSE, rows |-> << >>]
    /\ ALERT_THRESHOLD \in Thresholds
    /\ quotes = RichQuotes
    /\ faults = {}
    /\ TrackerInit
    /\ AnalyzerIdle

NextValuation ==
    \/ load_portfolio_data
    \/ get_current_prices
    \/ calculate_portfolio_performance
    \/ check_alerts

SpecValuation == InitValuation /\ [][NextValuation]_vars

\* the snapshots a stored history is made of: date, invested, current value
Snapshot(date, invested, value) ==
    [Date |-> date,
     Total_Investment |-> FromInt(invested),
     Current_Value |-> FromInt(value),
     Total_PL |-> FromInt(value - invested),
     Total_PL_Percentage |-> FMul(FDiv(FromInt(value - invested), FromInt(invested)), F100)]

Valuations == {<<100, 0>>, <<100, 100>>, <<100, 102>>, <<100, 105>>, <<200, 100>>}

CalendarDates == {Calendar[i] : i \in 1..Len(Calendar)}
Snapshots == {Snapshot(d, v[1], v[2]) : d \in CalendarDates, v \in Valuations}

\* the stored histories: 1..MaxLen snapshots, no date before an earlier row's
StoredHistories ==
    UNION {{h \in [1..n -> Snapshots] :
               \A i \in 1..(n - 1) : DateLe(h[i].Date, h[i + 1].Date)} : n \in 1..MaxLen}

\* the analyzer on a stored history
InitAnalyzer ==
    /\ holdings = << >>
    /\ holdings_exists = TRUE
    /\ clock = 1
    /\ history_file \in {[exists |-> TRUE, rows |-> h] : h \in StoredHistories}
    /\ ALERT_THRESHOLD = Number(0)
    /\ quotes = SparseQuotes
    /\ faults = {}
    /\ TrackerInit
    /\ AnalyzerIdle

NextAnalyzer ==
    \/ load_performance_history
    \/ calculate_monthly_returns
    \/ calculate_max_drawdown

SpecAnalyzer == InitAnalyzer /\ [][NextAnalyzer]_vars

\* the histories the risk metrics are computed on: one snapshot for each of the
\* first dates of the calendar, with losses that halve and double
RiskValuations == {<<100, 0>>, <<200, 100>>, <<100, 75>>, <<100, 100>>, <<100, 150>>}

RiskHistories ==
    UNION {{[i \in 1..n |-> Snapshot(Calendar[i], f[i][1], f[i][2])] :
               f \in [1..n -> RiskValuations]} : n \in 1..MaxLen}

\* an analyzer session on a stored history: the risk metrics, computed again,
\* with or without calculate_monthly_returns between the two calls
InitRisk ==
    /\ holdings = << >>
    /\ holdings_exists = TRUE
    /\ clock = 1
    /\ history_file \in {[exists |-> TRUE, rows |-> h] : h \in RiskHistories}
    /\ ALERT_THRESHOLD = Number(0)
    /\ quotes = SparseQuotes
    /\ faults = {}
    /\ TrackerInit
    /\ AnalyzerIdle

NextRisk ==
    \/ load_performance_history
    \/ calculate_risk_metrics
    \/ Len(risk_metrics) = 1 /\ calculate_monthly_returns

SpecRisk == InitRisk /\ [][NextRisk]_vars

\* the two entry points, each run once, with the collaborators that fail
MainPortfolios == Portfolios \cup {<< >>}
Collaborators == {"holdings", "chart", "email", "excel"}

\* the holdings file at the start of a process: a table, or no file
HoldingsFiles ==
    {[exists |-> TRUE, rows |-> h] : h \in MainPortfolios}
    \cup {[exists |-> FALSE, rows |-> << >>]}

\* a process that has not begun main()
ProcessStart ==
    /\ portfolio_data = NoneTable
    /\ current_prices = << >>
    /\ daily_report = [isNone |-> TRUE]
    /\ alerts = << >>
    /\ pc = "start"
    /\ last_fetched = NotFetched
    /\ run = NoRun
    /\ exit_code = << >>

InitMain ==
    /\ \E file \in HoldingsFiles :
          /\ holdings = file.rows
          /\ holdings_exists = file.exists
    /\ clock = 1
    /\ history_file = [exists |-> FALSE, rows |-> << >>]
    /\ ALERT_THRESHOLD \in Thresholds
    /\ quotes = SparseQuotes
    /\ faults \in SUBSET Collaborators
    /\ ProcessStart
    /\ AnalyzerIdle

TrackerMain ==
    \/ pc = "start" /\ NewTracker
    \/ pc = "new" /\ load_portfolio_data
    \/ get_current_prices
    \/ calculate_portfolio_performance
    \/ check_alerts
    \/ create_portfolio_charts
    \/ generate_email_report
    \/ send_email_report
    \/ update_portfolio_excel
    \/ main_exit

NextMain ==
    \/ TrackerMain
    \/ analyzer_load_portfolio_data
    \/ analyzer_main_returned

SpecMain == InitMain /\ [][NextMain]_vars

\* the interpreter runs each statement of run_daily_tracker and of main, so
\* that a step that can be taken is taken
SpecMainFair ==
    /\ SpecMain
    /\ WF_vars(create_portfolio_charts)
    /\ WF_vars(generate_email_report)
    /\ WF_vars(send_email_report)
    /\ WF_vars(update_portfolio_excel)
    /\ WF_vars(main_exit)

\* holdings with purchase dates at most MaxSpan days before today
PurchasedPosition(s, date) ==
    [Stock_Symbol |-> s, Purchase_Date |-> date,
     Purchase_Price |-> Position(s).Purchase_Price, Quantity |-> Position(s).Quantity]

SynthPortfolios(today) ==
    {<<PurchasedPosition("A", DaysBefore(today, k))>> : k \in 0..MaxSpan}
    \cup {<<PurchasedPosition("B", DaysBefore(today, j)),
            PurchasedPosition("A", DaysBefore(today, k))>> :
             j \in {0, MaxSpan}, k \in 0..MaxSpan}

\* the analyzer without a stored history: it builds one from the holdings
InitSynth ==
    /\ clock \in 1..MaxDay
    /\ holdings \in SynthPortfolios(Calendar[clock])
    /\ holdings_exists = TRUE
    /\ history_file = [exists |-> FALSE, rows |-> << >>]
    /\ ALERT_THRESHOLD = Number(0)
    /\ quotes = SparseQuotes
    /\ faults = {}
    /\ TrackerInit
    /\ AnalyzerIdle

NextSynth ==
    \/ analyzer_load_portfolio_data
    \/ create_performance_data_from_portfolio

SpecSynth == InitSynth /\ [][NextSynth]_vars

\* the price mappings the sheet Portfolio was valued with: a symbol without an
\* entry had no price
StockPriceSets ==
    [s \in Symbols |->
        CASE s = "A" -> {80, 120, 125}
          [] s = "B" -> {180, 200, 240}
          [] s = "C" -> {40, 50}]

StockPrices ==
    UNION {{f \in [S -> UNION {StockPriceSets[s] : s \in Symbols}] :
               \A s \in S : f[s] \in StockPriceSets[s]} : S \in SUBSET Symbols}

\* the analyzer with a valued table as its portfolio_data
InitStock ==
    /\ holdings \in Portfolios
    /\ holdings_exists = TRUE
    /\ clock = 1
    /\ history_file = [exists |-> FALSE, rows |-> << >>]
    /\ ALERT_THRESHOLD = Number(0)
    /\ quotes = SparseQuotes
    /\ faults = {}
    /\ TrackerInit
    /\ performance_history = NoneTable
    /\ monthly_returns = NoneTable
    /\ max_drawdown = [isNone |-> TRUE, value |-> NaN]
    /\ apc = "off"
    /\ risk_metrics = << >>
    /\ analyzer_portfolio_data \in
          {Table([i \in 1..Len(holdings) |-> PricedRow(holdings[i], prices)]) :
              prices \in StockPrices}
    /\ synthesized = << >>
    /\ analyzer_exit_code = << >>
    /\ stock_performance = NoneTable

NextStock == analyze_stock_performance

SpecStock == InitStock /\ [][NextStock]_vars

\* the sheets Performance_History the analyzer's main can find: none, one
\* without rows, one row, or two rows with the later date first
AnalyzeHistories ==
    {[exists |-> FALSE, rows |-> << >>], [exists |-> TRUE, rows |-> << >>]}
    \cup {[exists |-> TRUE, rows |-> <<Snapshot(Calendar[1], v[1], v[2])>>] :
             v \in RiskValuations}
    \cup {[exists |-> TRUE,
           rows |-> <<Snapshot(Calendar[2], v[1], v[2]), Snapshot(Calendar[1], w[1], w[2])>>] :
             v \in RiskValuations, w \in RiskValuations}

\* holdings bought today or the day before
AnalyzePortfolios(today) ==
    { <<PurchasedPosition("A", today)>>,
      <<PurchasedPosition("A", PrevDay(today))>>,
      <<PurchasedPosition("B", today), PurchasedPosition("A", PrevDay(today))>>,
      <<PurchasedPosition("C", PrevDay(today)), PurchasedPosition("B", today),
        PurchasedPosition("A", today)>> }

\* one run of the analyzer's main on holdings that can be read
InitAnalyze ==
    /\ clock \in 1..MaxDay
    /\ holdings \in AnalyzePortfolios(Calendar[clock])
    /\ holdings_exists = TRUE
    /\ history_file \in AnalyzeHistories
    /\ ALERT_THRESHOLD = Number(0)
    /\ quotes = SparseQuotes
    /\ faults = {}
    /\ TrackerInit
    /\ AnalyzerIdle

NextAnalyze ==
    \/ analyzer_load_portfolio_data
    \/ main_load_or_create_history
    \/ main_calculate_metrics
    \/ main_generate_performance_report
    \/ main_calculate_monthly_returns
    \/ main_analyze_stock_performance

SpecAnalyze == InitAnalyze /\ [][NextAnalyze]_vars

\* ------------------------------------------------------------------------
\* Claims about the tracker
\* ------------------------------------------------------------------------
Valued == pc \in {"calculated", "raised_in_alerts", "alerted", "charted", "composed",
                 "emailed", "done"}
Alerted == pc \in {"alerted", "charted", "composed", "emailed", "done"}

\* |pl_percentage| > threshold, stated on the fraction n/d itself
Exceeds(p, t) == IsNum(p) /\ (p.n > t * p.d \/ -p.n > t * p.d)

AlertingRows == {i \in 1..Len(portfolio_data.rows) :
                    Exceeds(portfolio_data.rows[i].PL_Percentage, ALERT_THRESHOLD.number)}

\* the j-th smallest member of a set of row numbers
NthOf(S, j) == CHOOSE i \in S : Cardinality({k \in S : k < i}) = j - 1

\* C1: check_alerts returns exactly one alert for each position whose
\* |pl_percentage| is strictly greater than the threshold, none for any other
\* position (one exactly at +threshold or -threshold does not alert), and the
\* alerts are in the order of the positions.
C1_AlertsAreTheExceedingRows ==
    Alerted =>
        /\ Len(alerts) = Cardinality(AlertingRows)
        /\ \A j \in 1..Len(alerts) :
              LET row == portfolio_data.rows[NthOf(AlertingRows, j)]
              IN  /\ alerts[j].symbol = row.Stock_Symbol
                  /\ alerts[j].pl_percentage = row.PL_Percentage

\* a positive threshold, a position exactly at -threshold that did not alert,
\* a position without a price, and an alert for a later position
C1_Witness ==
    /\ pc = "alerted"
    /\ ALERT_THRESHOLD = Number(10)
    /\ Len(portfolio_data.rows) = 3
    /\ Len(alerts) = 1
    /\ \E i \in 1..3 : portfolio_data.rows[i].PL_Percentage = FromInt(-10)
    /\ \E i \in 1..3 : IsNaN(portfolio_data.rows[i].PL_Percentage)
    /\ alerts[1].symbol = portfolio_data.rows[2].Stock_Symbol

\* C2: an alert is labelled profit exactly when pl_percentage > threshold and
\* loss exactly when pl_percentage < -threshold; there is no other label.
C2_AlertDirection ==
    Alerted =>
        \A j \in 1..Len(alerts) :
            LET p == alerts[j].pl_percentage
                t == ALERT_THRESHOLD.number
            IN  /\ alerts[j].type \in {"PROFIT ALERT", "LOSS ALERT"}
                /\ (alerts[j].type = "PROFIT ALERT") <=> (IsNum(p) /\ p.n > t * p.d)
                /\ (alerts[j].type = "LOSS ALERT") <=> (IsNum(p) /\ p.n < (-t) * p.d)

\* one run that gives a profit alert and a loss alert
C2_Witness ==
    /\ pc = "alerted"
    /\ \E j \in 1..Len(alerts) : alerts[j].type = "PROFIT ALERT"
    /\ \E j \in 1..Len(alerts) : alerts[j].type = "LOSS ALERT"

RECURSIVE SumInvested(_)
SumInvested(rows) ==
    IF rows = << >> THEN 0
    ELSE Head(rows).Purchase_Price * Head(rows).Quantity + SumInvested(Tail(rows))

RECURSIVE SumPriced(_, _)
SumPriced(rows, prices) ==
    IF rows = << >> THEN 0
    ELSE (IF Head(rows).Stock_Symbol \in DOMAIN prices
          THEN prices[Head(rows).Stock_Symbol] * Head(rows).Quantity
          ELSE 0) + SumPriced(Tail(rows), prices)

\* C3: after calculate_portfolio_performance the snapshot has
\* total_investment = sum of purchase_price x quantity over all positions,
\* total_current_value = sum of current_price x quantity over the positions that
\* have a price, and total_pl = total_current_value - total_investment.
C3_SnapshotTotals ==
    Valued =>
        /\ daily_report.total_investment = FromInt(SumInvested(holdings))
        /\ daily_report.total_current_value = FromInt(SumPriced(holdings, current_prices))
        /\ daily_report.total_pl =
              FromInt(SumPriced(holdings, current_prices) - SumInvested(holdings))

\* the example of the claim: A 1000 -> 1200, B 2000 -> 1800, C 500 and no price
C3_Witness ==
    /\ pc = "calculated"
    /\ Len(holdings) = 3
    /\ current_prices = [s \in {"A", "B"} |-> IF s = "A" THEN 120 ELSE 180]
    /\ daily_report.total_investment = FromInt(3500)
    /\ daily_report.total_current_value = FromInt(3000)
    /\ daily_report.total_pl = FromInt(-500)

\* C4 (as claimed): a position whose symbol has no entry in the price mapping
\* gets current_value 0 and unrealized_pl = -total_investment.
C4_MissingPriceIsZeroValue ==
    Valued =>
        \A i \in 1..Len(portfolio_data.rows) :
            LET row == portfolio_data.rows[i]
            IN  row.Stock_Symbol \notin DOMAIN current_prices =>
                    /\ row.Current_Value = FromInt(0)
                    /\ row.Unrealized_PL = FNeg(row.Total_Investment)

\* C5 (as claimed): the persisted history has strictly increasing dates, so no
\* two snapshots of the same date.
C5_HistoryDatesStrictlyIncrease ==
    \A i \in 1..Len(history_file.rows) : \A j \in 1..Len(history_file.rows) :
        i < j => DateLt(history_file.rows[i].Date, history_file.rows[j].Date)

\* C6 (as claimed): a cycle that persists a snapshot for a date not yet in the
\* stored history leaves the earlier snapshots unchanged and in their order,
\* followed by the new one.
C6_PersistAppends ==
    [][(pc = "emailed" /\ pc' = "done"
        /\ \A i \in 1..Len(history_file.rows) : history_file.rows[i].Date # Today)
       => history_file'.rows = history_file.rows \o <<SummaryRow(daily_report)>>]_vars

\* ------------------------------------------------------------------------
\* Claims about the analyzer
\* ------------------------------------------------------------------------
MonthOf(row) == <<row.Date[1], row.Date[2]>>

HistoryRows == performance_history.rows
MonthsPresent == {MonthOf(HistoryRows[i]) : i \in 1..Len(HistoryRows)}

\* the last and the first snapshot of a calendar month, by row number
LastOfMonth(m) ==
    HistoryRows[CHOOSE i \in 1..Len(HistoryRows) :
        /\ MonthOf(HistoryRows[i]) = m
        /\ \A j \in (i + 1)..Len(HistoryRows) : MonthOf(HistoryRows[j]) # m]
FirstOfMonth(m) ==
    HistoryRows[CHOOSE i \in 1..Len(HistoryRows) :
        /\ MonthOf(HistoryRows[i]) = m
        /\ \A j \in 1..(i - 1) : MonthOf(HistoryRows[j]) # m]

\* one entry per calendar month that has a snapshot, in chronological order
OnePerMonthInOrder ==
    LET m == monthly_returns.rows
    IN  /\ {MonthOf(m[k]) : k \in 1..Len(m)} = MonthsPresent
        /\ Len(m) = Cardinality(MonthsPresent)
        /\ \A k \in 1..(Len(m) - 1) : DateLt(m[k].Date, m[k + 1].Date)

FromLastSnapshot(entry) ==
    LET last == LastOfMonth(MonthOf(entry))
    IN  /\ entry.Date = last.Date
        /\ entry.Current_Value = last.Current_Value
        /\ entry.Total_PL = last.Total_PL
        /\ entry.Total_PL_Percentage = last.Total_PL_Percentage

\* C7 (as claimed): one MonthlyReturn per calendar month with a snapshot, in
\* chronological order, none for a month without one, and every field of it,
\* total_investment included, taken from the last snapshot of that month.
C7_EveryFieldFromLastSnapshot ==
    ~monthly_returns.isNone =>
        /\ OnePerMonthInOrder
        /\ \A k \in 1..Len(monthly_returns.rows) :
              LET entry == monthly_returns.rows[k]
              IN  /\ FromLastSnapshot(entry)
                  /\ entry.Total_Investment =
                        LastOfMonth(MonthOf(entry)).Total_Investment

\* C7 (amended): one MonthlyReturn per calendar month with a snapshot, in
\* chronological order, none for a month without one; date, current_value,
\* total_pl and total_pl_percentage are those of the last snapshot of the
\* month, total_investment is that of the first snapshot of the month.
C7_LastSnapshotButFirstInvestment ==
    ~monthly_returns.isNone =>
        /\ OnePerMonthInOrder
        /\ \A k \in 1..Len(monthly_returns.rows) :
              LET entry == monthly_returns.rows[k]
              IN  /\ FromLastSnapshot(entry)
                  /\ entry.Total_Investment =
                        FirstOfMonth(MonthOf(entry)).Total_Investment

\* three snapshots: one of January 2024, then two of January 2025 that differ
\* in total_investment and in current_value; two entries result
C7_Witness ==
    /\ ~monthly_returns.isNone
    /\ Len(HistoryRows) = 3
    /\ Len(monthly_returns.rows) = 2
    /\ MonthOf(HistoryRows[1]) = <<2024, 1>>
    /\ MonthOf(HistoryRows[2]) = <<2025, 1>>
    /\ MonthOf(HistoryRows[3]) = <<2025, 1>>
    /\ HistoryRows[2].Total_Investment # HistoryRows[3].Total_Investment
    /\ HistoryRows[2].Current_Value # HistoryRows[3].Current_Value
    /\ monthly_returns.rows[2].Total_Investment = HistoryRows[2].Total_Investment
    /\ monthly_returns.rows[2].Current_Value = HistoryRows[3].Current_Value

\* C8: the first month's monthly_return is 0; a later month's is the percent
\* change of its total_pl_percentage from that of the month listed before it,
\* (cur - prev) / prev x 100; a later month's is 0 only when the two are equal.
\* (The quotient is stated without a division; where prev is 0 the value is the
\* infinity of cur's sign, and 0 when cur is 0 too.)
C8_MonthOverMonth ==
    ~monthly_returns.isNone =>
        LET m == monthly_returns.rows
        IN  /\ m[1].Monthly_Return = FromInt(0)
            /\ \A k \in 2..Len(m) :
                  LET cur == m[k].Total_PL_Percentage
                      prev == m[k - 1].Total_PL_Percentage
                      ret == m[k].Monthly_Return
                  IN  /\ prev.n # 0 =>
                            /\ IsNum(ret)
                            /\ ret.n * (prev.n * cur.d)
                                 = 100 * (cur.n * prev.d - prev.n * cur.d) * ret.d
                      /\ (prev.n = 0 /\ cur.n # 0) => (IsInf(ret) /\ ret.n = Sign(cur))
                      /\ ret = FromInt(0) => cur = prev

\* the example of the claim: month-end values 2% then 5% give 0% and 150%
C8_Witness ==
    /\ ~monthly_returns.isNone
    /\ Len(monthly_returns.rows) = 2
    /\ monthly_returns.rows[1].Total_PL_Percentage = FromInt(2)
    /\ monthly_returns.rows[2].Total_PL_Percentage = FromInt(5)
    /\ monthly_returns.rows[1].Monthly_Return = FromInt(0)
    /\ monthly_returns.rows[2].Monthly_Return = FromInt(150)

\* the daily return series in percent: pct_change of total_pl_percentage, the
\* missing cells dropped
DailyReturnsPercent(rows) ==
    LET change == PctChange(Column(rows, "Total_PL_Percentage"))
        kept == SelectSeq(change, LAMBDA x : ~IsNaN(x))
    IN  [i \in 1..Len(kept) |-> FMul(kept[i], F100)]

\* the reference of the claim: the drawdown of g_i = product of (1 + r_j / 100)
ClaimedMaxDrawdown(rows) ==
    LET r == DailyReturnsPercent(rows)
    IN  DrawdownOf([i \in 1..Len(r) |-> FAdd(FromInt(1), FDiv(r[i], F100))])

\* C9 (as claimed): calculate_max_drawdown returns the minimum drawdown of the
\* cumulative growth of the daily return series.  (Stated for the histories on
\* which that reference is a number: at least one daily return, all of them
\* finite, and no running maximum of 0.)
C9_DrawdownOfDailyReturns ==
    (/\ ~max_drawdown.isNone
     /\ DailyReturnsPercent(HistoryRows) # << >>
     /\ \A i \in 1..Len(DailyReturnsPercent(HistoryRows)) :
           IsNum(DailyReturnsPercent(HistoryRows)[i])
     /\ IsNum(ClaimedMaxDrawdown(HistoryRows))
     /\ IsNum(max_drawdown.value))
    => max_drawdown.value = ClaimedMaxDrawdown(HistoryRows)

\* g_i of the total_pl_percentage series p: the product of (100 + p_j) / 100
\* over the snapshots j <= i
RECURSIVE GrowthUpTo(_, _)
GrowthUpTo(rows, i) ==
    LET factor == FDiv(FAdd(F100, rows[i].Total_PL_Percentage), F100)
    IN  IF i = 1 THEN factor ELSE FMul(GrowthUpTo(rows, i - 1), factor)

\* running_max_i: the g_k, k <= i, that no g_m, m <= i, exceeds
PeakUpTo(rows, i) ==
    CHOOSE g \in {GrowthUpTo(rows, k) : k \in 1..i} :
        \A m \in 1..i : ~FLt(g, GrowthUpTo(rows, m))

\* the drawdown_i that are defined: those with a running maximum other than 0
DefinedDrawdowns(rows) ==
    {FMul(FDiv(FSub(GrowthUpTo(rows, i), PeakUpTo(rows, i)), PeakUpTo(rows, i)), F100) :
        i \in {k \in 1..Len(rows) : PeakUpTo(rows, k).n # 0}}

\* C9 (amended): max_drawdown is computed from the total_pl_percentage series
\* p, not from the daily returns: g_i is the product of (1 + p_j / 100) for
\* j <= i, running_max_i the maximum of the g up to i, drawdown_i =
\* (g_i - running_max_i) / running_max_i x 100, and calculate_max_drawdown
\* returns the minimum of the drawdown_i that are defined (running_max_i # 0),
\* NaN when none is.
C9_DrawdownOfPercentageLevels ==
    ~max_drawdown.isNone =>
        LET D == DefinedDrawdowns(HistoryRows)
        IN  IF D = {} THEN IsNaN(max_drawdown.value)
            ELSE /\ max_drawdown.value \in D
                 /\ \A x \in D : ~FLt(x, max_drawdown.value)

\* three snapshots with a fall after a rise: the value returned is negative,
\* and it is not the drawdown of the daily return series
C9_Witness ==
    /\ ~max_drawdown.isNone
    /\ Len(HistoryRows) = 3
    /\ FLt(HistoryRows[1].Total_PL_Percentage, HistoryRows[2].Total_PL_Percentage)
    /\ FLt(HistoryRows[3].Total_PL_Percentage, HistoryRows[2].Total_PL_Percentage)
    /\ IsNum(max_drawdown.value)
    /\ max_drawdown.value.n < 0
    /\ IsNum(ClaimedMaxDrawdown(HistoryRows))
    /\ max_drawdown.value # ClaimedMaxDrawdown(HistoryRows)

\* C10 (as claimed): max_drawdown <= 0 for every history, and it is 0 only if
\* the cumulative growth series never falls.
C10_DrawdownNotPositive ==
    ~max_drawdown.isNone =>
        LET v == max_drawdown.value
            c == CumProd(GrowthColumn(HistoryRows))
        IN  /\ IsNum(v)
            /\ v.n <= 0
            /\ v.n = 0 => \A i \in 1..(Len(c) - 1) : ~FLt(c[i + 1], c[i])

\* ------------------------------------------------------------------------
\* Claims about calculate_risk_metrics
\* ------------------------------------------------------------------------
\* the daily return series the metrics of the loaded history are computed on
Returns == DailyReturns(HistoryRows)
AllFinite(cells) == \A i \in 1..Len(cells) : IsNum(cells[i])

\* C11 (as claimed): when the daily returns are all identical, with a mean
\* other than 0, so that the volatility is 0, Sharpe_Ratio is the sentinel for
\* "undefined" (NaN), which is neither an infinity nor a number.
C11_FlatSharpeIsUndefined ==
    \A j \in 1..Len(risk_metrics) :
        (/\ Returns # << >>
         /\ \A i \in 1..Len(Returns) : Returns[i] = Returns[1]
         /\ IsNum(Returns[1]) /\ Returns[1].n # 0
         /\ risk_metrics[j].Volatility = FromInt(0))
        => IsNaN(risk_metrics[j].Sharpe_Ratio)

\* the change from snapshot i to snapshot i + 1, for every i < n:
\* (p[i+1] - p[i]) / p[i] of the total_pl_percentage series p
Changes(rows) ==
    [i \in 1..(Len(rows) - 1) |->
        FDiv(FSub(rows[i + 1].Total_PL_Percentage, rows[i].Total_PL_Percentage),
             rows[i].Total_PL_Percentage)]

\* C12 (as claimed): a history of n snapshots gives exactly n - 1 daily returns,
\* the i-th being the change from snapshot i to snapshot i + 1, and
\* Positive_Days is the count of positive ones divided by that n - 1, x 100.
C12_AllButTheFirstAreKept ==
    \A j \in 1..Len(risk_metrics) :
        LET n == Len(HistoryRows)
            c == Changes(HistoryRows)
        IN  /\ Len(Returns) = n - 1
            /\ \A i \in 1..(n - 1) : Returns[i] = c[i]
            /\ risk_metrics[j].Positive_Days =
                  FMul(FDiv(FromInt(CountPositive(c)), FromInt(n - 1)), F100)

\* the sum of the squared deviations of the cells from their mean
SquaredDeviations(cells) ==
    LET total == SumSkipNa(cells)
        m == FDiv(total, FromInt(Len(cells)))
    IN  SumSkipNa([i \in 1..Len(cells) |->
                      FMul(FSub(cells[i], m), FSub(cells[i], m))])

\* C13 (as claimed): Volatility is the population standard deviation of the n
\* daily returns x sqrt(252): Volatility^2 x n = 252 x the sum of the squared
\* deviations from the mean; it is a number for every n >= 1, and 0 for n = 1.
C13_PopulationVolatility ==
    \A j \in 1..Len(risk_metrics) :
        LET v == risk_metrics[j].Volatility
        IN  (Returns # << >> /\ AllFinite(Returns)) =>
                /\ IsNum(v) \/ IsSurd(v)
                /\ v.n >= 0
                /\ FMul(Squared(v), FromInt(Len(Returns)))
                      = FMul(FromInt(252), SquaredDeviations(Returns))

\* C13 (amended): Volatility is the sample standard deviation of the n daily
\* returns x sqrt(252): for n >= 2 finite returns, Volatility^2 x (n - 1) =
\* 252 x the sum of the squared deviations from the mean; for n <= 1, and when
\* a return is infinite, Volatility is NaN.
C13_SampleVolatility ==
    \A j \in 1..Len(risk_metrics) :
        LET v == risk_metrics[j].Volatility
        IN  IF Len(Returns) >= 2 /\ AllFinite(Returns)
            THEN /\ IsNum(v) \/ IsSurd(v)
                 /\ v.n >= 0
                 /\ FMul(Squared(v), FromInt(Len(Returns) - 1))
                       = FMul(FromInt(252), SquaredDeviations(Returns))
            ELSE IsNaN(v)

\* two daily returns that differ, -50% and +100%: Volatility is sqrt(283.5)
C13_Witness ==
    /\ Len(risk_metrics) >= 1
    /\ Returns = <<Norm(-1, 2), FromInt(1)>>
    /\ risk_metrics[1].Volatility = [k |-> "surd", n |-> 567, d |-> 2]

\* C14: a call of calculate_risk_metrics leaves the performance history as it
\* was, and returns what every earlier call on the same history returned,
\* whether or not calculate_monthly_returns ran between the calls.
C14_RiskMetricsRepeatable ==
    [][Len(risk_metrics') > Len(risk_metrics) =>
          /\ performance_history' = performance_history
          /\ \A i \in 1..Len(risk_metrics') : risk_metrics'[i] = risk_metrics'[1]]_vars

\* two calls with calculate_monthly_returns between them, on a history whose
\* metrics are numbers
C14_Witness ==
    /\ Len(risk_metrics) = 2
    /\ ~monthly_returns.isNone
    /\ "Year_Month" \in DOMAIN performance_history.rows[1]
    /\ risk_metrics[2] = risk_metrics[1]
    /\ IsSurd(risk_metrics[2].Volatility)
    /\ IsSurd(risk_metrics[2].Sharpe_Ratio)
    /\ IsNum(risk_metrics[2].Max_Drawdown)

\* ------------------------------------------------------------------------
\* Claims about the entry points
\* ------------------------------------------------------------------------
\* no step after the loading of the holdings has run
NothingAfterLoad ==
    /\ pc \in {"start", "new", "returned_false"}
    /\ current_prices = << >>
    /\ daily_report.isNone
    /\ alerts = << >>
    /\ run = NoRun
    /\ ~history_file.exists
    /\ performance_history.isNone
    /\ risk_metrics = << >>

\* C17 (as claimed): when the holdings cannot be loaded, each entry point ends
\* with an exit code other than 0 and none of the later steps runs.
C17_UnreadableHoldingsAreFatal ==
    "holdings" \in faults =>
        /\ NothingAfterLoad
        /\ exit_code # << >> => exit_code[1] # 0
        /\ analyzer_exit_code # << >> => analyzer_exit_code[1] # 0

\* C18: in a cycle whose holdings loaded and were valued, whatever fails of
\* the chart, the email and the workbook, every later step runs: the email is
\* composed, the workbook is attempted (which stamps Last_Updated),
\* run_daily_tracker returns True and the process ends with exit code 0.
C18_FailuresDoNotAbort ==
    (pc = "alerted") ~>
        (/\ pc = "done"
         /\ exit_code = <<0>>
         /\ run.chart_filename = (IF "chart" \in faults THEN "None"
                                  ELSE "portfolio_chart.png")
         /\ run.html_content = "html"
         /\ run.email_sent = ("email" \notin faults)
         /\ run.excel_updated = ("excel" \notin faults)
         /\ \A i \in 1..Len(portfolio_data.rows) :
               "Last_Updated" \in DOMAIN portfolio_data.rows[i])

\* the chart, the email and the workbook all failed, and the exit code is 0
C18_Witness ==
    /\ faults = {"chart", "email", "excel"}
    /\ pc = "done"
    /\ exit_code = <<0>>
    /\ run = [chart_filename |-> "None", html_content |-> "html",
              email_sent |-> FALSE, excel_updated |-> FALSE]
    /\ ~history_file.exists

\* C19: a cycle whose holdings loaded without a position does not get to a
\* valuation, an alert, a chart, an email or the workbook, and when its process
\* has ended the exit code is not 0.
C19_NoPositionsIsFatal ==
    (holdings_exists /\ holdings = << >> /\ "holdings" \notin faults) =>
        /\ pc \in {"start", "new", "loaded", "priced", "raised"}
        /\ daily_report.isNone
        /\ alerts = << >>
        /\ run = NoRun
        /\ ~history_file.exists
        /\ exit_code # << >> => exit_code[1] # 0

\* the holdings loaded without a position and the process has ended, with 1
C19_Witness ==
    /\ holdings = << >>
    /\ holdings_exists = TRUE
    /\ ~portfolio_data.isNone
    /\ pc = "raised"
    /\ exit_code = <<1>>

\* C20 (as claimed): when the valuation runs, current_prices holds an entry for
\* a symbol only if the latest get_current_prices obtained a price other than
\* 0 for it, and no entry is 0.
C20_OnlyFreshPrices ==
    (pc = "priced" \/ Valued) =>
        \A s \in DOMAIN current_prices :
            /\ last_fetched[s].ok
            /\ last_fetched[s].price # 0
            /\ current_prices[s] # 0

\* ------------------------------------------------------------------------
\* Claims about the synthesized history
\* ------------------------------------------------------------------------
\* C15 (as claimed): two runs of create_performance_data_from_portfolio with
\* the same holdings, start date, end date and investment build the same table.
C15_SynthesisIsDeterministic ==
    \A i \in 1..Len(synthesized) : \A j \in 1..Len(synthesized) :
        synthesized[i] = synthesized[j]

EarliestPurchase ==
    CHOOSE d \in {holdings[i].Purchase_Date : i \in 1..Len(holdings)} :
        \A i \in 1..Len(holdings) : ~DateLt(holdings[i].Purchase_Date, d)

\* the calendar dates of the months of two dates
DatesOfTheMonths(a, b) ==
    {date \in {<<ym[1], ym[2], d>> : ym \in {<<a[1], a[2]>>, <<b[1], b[2]>>}, d \in 1..31} :
        date[3] <= DaysInMonth(date[1], date[2])}

\* C16: a synthesized table has exactly one snapshot for every Monday-to-Friday
\* date from the earliest purchase date through today, none for a Saturday or
\* a Sunday (nor for a date outside that range), in strictly increasing date
\* order; every snapshot's total_investment is the sum of purchase_price x
\* quantity over the positions, and its total_pl is current_value -
\* total_investment.
C16_OneSnapshotPerBusinessDay ==
    \A r \in 1..Len(synthesized) :
        LET h == synthesized[r]
            first == EarliestPurchase
            invested == FromInt(SumInvested(holdings))
            dates == {h[i].Date : i \in 1..Len(h)}
        IN  /\ \A d \in DatesOfTheMonths(first, Today) :
                  (~DateLt(d, first) /\ ~DateLt(Today, d) /\ Weekday(d) \in 0..4)
                  => d \in dates
            /\ \A d \in dates :
                  ~DateLt(d, first) /\ ~DateLt(Today, d) /\ Weekday(d) \in 0..4
            /\ \A i \in 1..(Len(h) - 1) : DateLt(h[i].Date, h[i + 1].Date)
            /\ \A i \in 1..Len(h) :
                  /\ h[i].Total_Investment = invested
                  /\ h[i].Total_PL = FSub(h[i].Current_Value, h[i].Total_Investment)

\* two positions, the earlier bought on Saturday 27 January 2024, today
\* Wednesday 31 January: snapshots for the 29th, the 30th and the 31st
C16_Witness ==
    /\ Len(synthesized) >= 1
    /\ Len(holdings) = 2
    /\ Today = <<2024, 1, 31>>
    /\ EarliestPurchase = <<2024, 1, 27>>
    /\ Column(synthesized[1], "Date") = <<<<2024, 1, 29>>, <<2024, 1, 30>>, <<2024, 1, 31>>>>
    /\ synthesized[1][1].Total_Investment = FromInt(3000)


\* ------------------------------------------------------------------------
\* Alerts as the system test and the spec read them
\* ------------------------------------------------------------------------
\* the keys step 6 of test_portfolio_tracker reads from every alert
AlertKeysRead == {"symbol", "type", "daily_pl_percentage", "overall_pl_percentage"}

\* C24 (as claimed): every alert check_alerts returned has the keys the system
\* test reads from it, symbol, type, daily_pl_percentage and
\* overall_pl_percentage, so that the test's alert step does not raise.
C24_AlertsCarryTheKeysTheTestReads ==
    Alerted => \A i \in 1..Len(alerts) : AlertKeysRead \subseteq DOMAIN alerts[i]

\* the rows of the valued table whose symbol has no entry in current_prices
UnpricedRows == {i \in 1..Len(portfolio_data.rows) :
                    portfolio_data.rows[i].Stock_Symbol \notin DOMAIN current_prices}

\* C25: a position whose price is unavailable (its symbol has no entry in
\* current_prices when the table is valued) has no alert among those
\* check_alerts returned, whatever the threshold.
C25_UnpricedNeverAlerts ==
    Alerted =>
        \A i \in UnpricedRows : \A j \in 1..Len(alerts) :
            alerts[j].symbol # portfolio_data.rows[i].Stock_Symbol

\* threshold 0, a position without a price and an alert for a priced one
C25_Witness ==
    /\ pc = "alerted"
    /\ ALERT_THRESHOLD = Number(0)
    /\ UnpricedRows # {}
    /\ alerts # << >>
    /\ \E i \in UnpricedRows : IsNaN(portfolio_data.rows[i].PL_Percentage)


\* ------------------------------------------------------------------------
\* Weights and contributions
\* ------------------------------------------------------------------------
Analyzed == ~stock_performance.isNone

\* the rows of the analyzed table that have a price
PricedStockRows == {i \in 1..Len(analyzer_portfolio_data.rows) :
                       ~IsNaN(analyzer_portfolio_data.rows[i].Current_Price)}

\* C21 (as claimed): with at least one priced position the weights add up to
\* 100, every weight is between 0 and 100, and a position without a price has
\* weight 0.
C21_WeightsAddUpAndUnpricedIsZero ==
    (Analyzed /\ PricedStockRows # {}) =>
        LET rows == analyzer_portfolio_data.rows
        IN  /\ SumSkipNa(Column(rows, "Weight")) = F100
            /\ \A i \in 1..Len(rows) :
                  /\ IsNum(rows[i].Weight)
                  /\ ~FLt(rows[i].Weight, FromInt(0))
                  /\ ~FGt(rows[i].Weight, F100)
                  /\ i \notin PricedStockRows => rows[i].Weight = FromInt(0)

\* C22 (as claimed): when the unrealized_pl of the positions adds up to 0 every
\* contribution is 0, never NaN or an infinity; otherwise it is
\* unrealized_pl / sum of unrealized_pl x 100.
C22_ContributionGuardsZeroTotal ==
    Analyzed =>
        LET rows == analyzer_portfolio_data.rows
            total == SumSkipNa(Column(rows, "Unrealized_PL"))
        IN  \A i \in 1..Len(rows) :
                IF total = FromInt(0)
                THEN rows[i].Contribution = FromInt(0)
                ELSE rows[i].Contribution =
                         FMul(FDiv(rows[i].Unrealized_PL, total), F100)


\* ------------------------------------------------------------------------
\* The history the analyzer's main uses
\* ------------------------------------------------------------------------
\* the columns of a snapshot, without those calculate_monthly_returns adds
SnapshotColumns(row) ==
    [f \in {"Date", "Total_Investment", "Current_Value", "Total_PL",
            "Total_PL_Percentage"} |-> row[f]]

\* the history C23 expects the metrics to be computed on
ExpectedHistory ==
    IF HistoryLoads THEN SortByDate(history_file.rows) ELSE synthesized[1]

\* C23: in the analyzer's main, when load_performance_history succeeds
\* create_performance_data_from_portfolio is never called and the history the
\* risk metrics, the drawdown and the monthly returns are computed on is the
\* loaded one in date order; when it fails they are computed on the
\* synthesized history.
C23_SynthesizeOnlyWithoutHistory ==
    /\ HistoryLoads => synthesized = << >>
    /\ (~HistoryLoads /\ apc = "loaded") => Len(synthesized) = 1
    /\ apc = "loaded" =>
          LET used == ExpectedHistory
          IN  /\ ~performance_history.isNone
              /\ Len(performance_history.rows) = Len(used)
              /\ \A i \in 1..Len(used) :
                    SnapshotColumns(performance_history.rows[i]) = SnapshotColumns(used[i])
              /\ risk_metrics # << >> =>
                    /\ risk_metrics[1] = RiskMetrics(used)
                    /\ max_drawdown.value = DrawdownOf(GrowthColumn(used))
              /\ ~monthly_returns.isNone =>
                    monthly_returns.rows =
                        MonthlyData([i \in 1..Len(used) |-> WithMonthColumns(used[i])])

\* a stored history of two rows, the later first, was loaded and the metrics
\* and monthly returns are computed
C23_Witness ==
    /\ HistoryLoads
    /\ Len(history_file.rows) = 2
    /\ performance_history.rows # history_file.rows
    /\ Len(risk_metrics) = 1
    /\ ~monthly_returns.isNone
    /\ Analyzed

\* no stored history could be loaded and the metrics are those of the
\* synthesized one
C23_WitnessSynthesized ==
    /\ history_file.exists
    /\ ~HistoryLoads
    /\ Len(synthesized) = 1
    /\ Len(synthesized[1]) >= 2
    /\ Len(risk_metrics) = 1
    /\ ~monthly_returns.isNone

====
